---- MODULE Spec2Model ----
(***************************************************************************)
(* Model of the live-session manager (LiveManager) and of the React        *)
(* component (App) that drives it.                                         *)
(*                                                                         *)
(* The repository holds two revisions of the manager:                      *)
(*   "promise" : src/services/liveManager.ts  (keeps this.sessionPromise,  *)
(*               never awaits it)                                          *)
(*   "session" : src/unnamed/part_001         (awaits the promise and      *)
(*               keeps this.session)                                       *)
(* The variable `variant` is fixed by Init and selects the revision, so    *)
(* every property is checked against both.                                 *)
(*                                                                         *)
(* One action is one JavaScript task: a handler together with the          *)
(* microtasks it schedules (an `await` continuation of an already settled  *)
(* promise, a `.then` callback on a resolved promise).                     *)
(***************************************************************************)
EXTENDS Integers, Sequences, FiniteSets, TLC

\* ------------------------------------------------------------------ bounds
MaxConnects == 2    \* connect() calls that get past the isConnected guard
MaxMsgs     == 1    \* inbound messages delivered by the remote service
MaxCalls    == 2    \* function calls in one tool-call message
MaxStream   == 2    \* inbound messages of a message stream
MaxEvents   == 4    \* callbacks delivered to the state projector alone
MaxFrames   == 1    \* audio frames delivered by the capture device
GridDen     == 10   \* samples are the multiples of 1/GridDen in [-2, 2]
MaxSamples  == 2    \* samples in a frame given to the codec alone

Null == 0

\* the value of a parameter the caller did not pass
Undefined == -1

\* new AudioContext({ sampleRate: 16000 })
RequestedRate == 16000

\* sample rates a platform gives an audio context
Rates == {16000, 48000}

\* the blob of a frame that was not encoded
NoPacket == [data |-> << >>, mimeType |-> "", rate |-> Null]

CodecIdle == [pc |-> "idle", input |-> << >>,
              blob |-> [data |-> << >>, mimeType |-> ""], output |-> << >>]
Ids  == 1..MaxConnects

Variants == {"promise", "session"}

\* what disconnect() releases: the source node, the processor node, the tracks
\* of the microphone stream and the audio context of connect() call i
Resources == {"source", "processor", "stream", "context"} \X Ids

VARIABLES
  variant,
  \* LiveManager fields
  isConnected, session, sessionPromise, inputAudioContext, stream,
  processor, source,
  \* App state
  mounted, isRecording, error, volume, currentTranscript,
  transcriptHistory, intents, nextUuid,
  \* connect() invocations: the await each one is suspended at
  nConnects, pc,
  \* environment: audio contexts, microphone, remote sessions, audio nodes
  ctxState, micState, track, sess, prom, thenQ, srcNode, procNode, nodeCtx,
  nMsgs, nFrames,
  \* observations
  ackLog, audioLog, received, cycleDisc, errCount, runLen, runNotifs, last,
  earlyFrames, releases, cancelled, notified, inbound, events,
  platformRate, packets, codec

vars == << variant, isConnected, session, sessionPromise, inputAudioContext,
           stream, processor, source, mounted, isRecording, error, volume,
           currentTranscript, transcriptHistory, intents, nextUuid,
           nConnects, pc, ctxState, micState, track, sess, prom, thenQ,
           srcNode, procNode, nodeCtx, nMsgs, nFrames, ackLog, audioLog,
           received, cycleDisc, errCount, runLen, runNotifs, last,
           earlyFrames, releases, cancelled, notified, inbound, events,
           platformRate, packets, codec >>

\* The state as one record, so that a handler is a function from state to
\* state and handlers can call each other as the code does.
Cur ==
  [ isConnected |-> isConnected, session |-> session,
    sessionPromise |-> sessionPromise,
    inputAudioContext |-> inputAudioContext, stream |-> stream,
    processor |-> processor, source |-> source,
    mounted |-> mounted, isRecording |-> isRecording, error |-> error,
    volume |-> volume, currentTranscript |-> currentTranscript,
    transcriptHistory |-> transcriptHistory, intents |-> intents,
    nextUuid |-> nextUuid, nConnects |-> nConnects, pc |-> pc,
    ctxState |-> ctxState, micState |-> micState, track |-> track,
    sess |-> sess, prom |-> prom, thenQ |-> thenQ, srcNode |-> srcNode,
    procNode |-> procNode, nodeCtx |-> nodeCtx, nMsgs |-> nMsgs,
    nFrames |-> nFrames, ackLog |-> ackLog, audioLog |-> audioLog,
    received |-> received, cycleDisc |-> cycleDisc, errCount |-> errCount,
    runLen |-> runLen, runNotifs |-> runNotifs, last |-> last,
    earlyFrames |-> earlyFrames, releases |-> releases,
    cancelled |-> cancelled, notified |-> notified, inbound |-> inbound,
    events |-> events, platformRate |-> platformRate, packets |-> packets,
    codec |-> codec ]

Set(s) ==
  /\ variant' = variant
  /\ isConnected' = s.isConnected
  /\ session' = s.session
  /\ sessionPromise' = s.sessionPromise
  /\ inputAudioContext' = s.inputAudioContext
  /\ stream' = s.stream
  /\ processor' = s.processor
  /\ source' = s.source
  /\ mounted' = s.mounted
  /\ isRecording' = s.isRecording
  /\ error' = s.error
  /\ volume' = s.volume
  /\ currentTranscript' = s.currentTranscript
  /\ transcriptHistory' = s.transcriptHistory
  /\ intents' = s.intents
  /\ nextUuid' = s.nextUuid
  /\ nConnects' = s.nConnects
  /\ pc' = s.pc
  /\ ctxState' = s.ctxState
  /\ micState' = s.micState
  /\ track' = s.track
  /\ sess' = s.sess
  /\ prom' = s.prom
  /\ thenQ' = s.thenQ
  /\ srcNode' = s.srcNode
  /\ procNode' = s.procNode
  /\ nodeCtx' = s.nodeCtx
  /\ nMsgs' = s.nMsgs
  /\ nFrames' = s.nFrames
  /\ ackLog' = s.ackLog
  /\ audioLog' = s.audioLog
  /\ received' = s.received
  /\ cycleDisc' = s.cycleDisc
  /\ errCount' = s.errCount
  /\ runLen' = s.runLen
  /\ runNotifs' = s.runNotifs
  /\ last' = s.last
  /\ earlyFrames' = s.earlyFrames
  /\ releases' = s.releases
  /\ cancelled' = s.cancelled
  /\ notified' = s.notified
  /\ inbound' = s.inbound
  /\ events' = s.events
  /\ platformRate' = s.platformRate
  /\ packets' = s.packets
  /\ codec' = s.codec

\* Every entry point records itself in `last`; only a direct disconnect()
\* call by the controlling layer continues a run of disconnect() calls.
Mark(s, op, i) ==
  [s EXCEPT !.last = [op |-> op, id |-> i], !.runLen = 0, !.runNotifs = 0]

MarkDisconnectCall(s, op) ==
  [s EXCEPT !.last = [op |-> op, id |-> Null], !.runLen = @ + 1,
            !.runNotifs = IF s.runLen = 0 THEN 0 ELSE @,
            !.cancelled = @ \cup { i \in Ids : s.pc[i] \notin {"none", "done"} }]

InitManager ==
  /\ variant \in Variants
  /\ isConnected = FALSE
  /\ session = Null
  /\ sessionPromise = Null
  /\ inputAudioContext = Null
  /\ stream = Null
  /\ processor = Null
  /\ source = Null
  /\ mounted = TRUE
  /\ isRecording = FALSE
  /\ error = FALSE
  /\ volume = 0
  /\ currentTranscript = << >>
  /\ transcriptHistory = << >>
  /\ intents = << >>
  /\ nextUuid = 1
  /\ nConnects = 0
  /\ pc = [i \in Ids |-> "none"]
  /\ ctxState = [i \in Ids |-> "none"]
  /\ micState = [i \in Ids |-> "none"]
  /\ track = [i \in Ids |-> "none"]
  /\ sess = [i \in Ids |-> "none"]
  /\ prom = [i \in Ids |-> "none"]
  /\ thenQ = [i \in Ids |-> << >>]
  /\ srcNode = [i \in Ids |-> "none"]
  /\ procNode = [i \in Ids |-> "none"]
  /\ nodeCtx = [i \in Ids |-> Null]
  /\ nMsgs = 0
  /\ nFrames = 0
  /\ ackLog = << >>
  /\ audioLog = << >>
  /\ received = {}
  /\ cycleDisc = 0
  /\ errCount = [i \in Ids |-> 0]
  /\ runLen = 0
  /\ runNotifs = 0
  /\ last = [op |-> "init", id |-> Null]
  /\ earlyFrames = {}
  /\ releases = [r \in Resources |-> 0]
  /\ cancelled = {}
  /\ notified = << >>
  /\ inbound = << >>
  /\ events = << >>
  /\ packets = [f \in 1..MaxFrames |-> NoPacket]

\* the platform gives the audio context the sample rate it was asked for and
\* the codec is not exercised on its own
Init ==
  /\ InitManager
  /\ platformRate = RequestedRate
  /\ codec = CodecIdle

\* ------------------------------------------------------------- audioUtils
\* A sample is a multiple n of 1/GridDen, given by its numerator n.
\* the sample taken as it is
NoClamp(n) == n

\* val > 1 becomes 1, val < -1 becomes -1
Clamp(n) ==
  IF n > GridDen THEN GridDen ELSE IF n < -GridDen THEN -GridDen ELSE n

\* val < 0 ? val * 0x8000 : val * 0x7FFF, as a numerator over GridDen
Scale(n) == IF n < 0 THEN n * 32768 ELSE n * 32767

\* the integer part of a / b (b > 0), as the store into an Int16Array takes it
TruncDiv(a, b) == IF a >= 0 THEN a \div b ELSE -((-a) \div b)

\* the store into an Int16Array keeps the low 16 bits, read as signed
ToInt16(k) ==
  LET m == k % 65536 IN IF m >= 32768 THEN m - 65536 ELSE m

encodeSample(n) == ToInt16(TruncDiv(Scale(Clamp(n)), GridDen))

\* the bytes of an Int16Array with the high byte first
Int16BytesBigEndian(vals) ==
  [k \in 1..(2 * Len(vals)) |->
     LET u == vals[(k + 1) \div 2] % 65536
     IN IF k % 2 = 1 THEN u \div 256 ELSE u % 256]

\* int16.buffer seen as bytes: two per value, low byte first
Int16Bytes(vals) ==
  [k \in 1..(2 * Len(vals)) |->
     LET u == vals[(k + 1) \div 2] % 65536
     IN IF k % 2 = 1 THEN u % 256 ELSE u \div 256]

\* btoa: every three bytes give four 6-bit characters (by their index in the
\* base64 alphabet); a last group of one or two bytes is filled with Pad
Pad == 64

RECURSIVE arrayBufferToBase64(_)
arrayBufferToBase64(bytes) ==
  IF Len(bytes) = 0 THEN << >>
  ELSE IF Len(bytes) = 1
    THEN << bytes[1] \div 4, (bytes[1] % 4) * 16, Pad, Pad >>
  ELSE IF Len(bytes) = 2
    THEN << bytes[1] \div 4, (bytes[1] % 4) * 16 + bytes[2] \div 16,
            (bytes[2] % 16) * 4, Pad >>
  ELSE << bytes[1] \div 4, (bytes[1] % 4) * 16 + bytes[2] \div 16,
          (bytes[2] % 16) * 4 + bytes[3] \div 64, bytes[3] % 64 >>
       \o arrayBufferToBase64(SubSeq(bytes, 4, Len(bytes)))

\* atob: every four characters give three bytes, fewer where they are Pad
RECURSIVE atob(_)
atob(chars) ==
  IF Len(chars) < 4 THEN << >>
  ELSE LET b1 == chars[1] * 4 + chars[2] \div 16
           b2 == (chars[2] % 16) * 16 + chars[3] \div 4
           b3 == (chars[3] % 4) * 64 + chars[4]
       IN (IF chars[3] = Pad THEN << b1 >>
           ELSE IF chars[4] = Pad THEN << b1, b2 >>
           ELSE << b1, b2, b3 >>)
          \o atob(SubSeq(chars, 5, Len(chars)))

\* the template `audio/pcm;rate=${sampleRate}`
mimeType(sampleRate) ==
  "audio/pcm;rate=" \o (IF sampleRate = Undefined THEN "undefined"
                        ELSE ToString(sampleRate))

createPcmBlob(data, sampleRate) ==
  [data |-> arrayBufferToBase64(
              Int16Bytes([i \in 1..Len(data) |-> encodeSample(data[i])])),
   mimeType |-> mimeType(sampleRate)]

\* new Int16Array(bytes.buffer) of the decoded bytes; channelData[i] is
\* dataInt16[i] / 32768, given here by its numerator dataInt16[i]
decodeAudioData(base64Data) ==
  LET bytes == atob(base64Data) IN
  [i \in 1..(Len(bytes) \div 2) |->
     ToInt16(bytes[2 * i - 1] + 256 * bytes[2 * i])]

\* ------------------------------------------------------------ App handlers
\* String.prototype.trim on a text given as a sequence of characters.
RECURSIVE TrimLeft(_)
TrimLeft(t) ==
  IF t = << >> THEN << >>
  ELSE IF Head(t) = " " THEN TrimLeft(Tail(t)) ELSE t

RECURSIVE TrimRight(_)
TrimRight(t) ==
  IF t = << >> THEN << >>
  ELSE IF t[Len(t)] = " " THEN TrimRight(SubSeq(t, 1, Len(t) - 1)) ELSE t

trim(t) == TrimRight(TrimLeft(t))

onVolumeUpdate(s, vol) == [s EXCEPT !.volume = vol]

\* the update without the trim(): any non-empty previous string is pushed
onTranscriptUpdateNoTrim(s, text) ==
  LET prev == s.currentTranscript IN
  IF Len(text) < Len(prev) /\ Len(prev) > 0
    THEN [s EXCEPT !.transcriptHistory = Append(@, prev),
                   !.currentTranscript = text]
    ELSE [s EXCEPT !.currentTranscript = text]

onTranscriptUpdate(s, text) ==
  LET prev == s.currentTranscript IN
  IF Len(text) < Len(prev) /\ Len(trim(prev)) > 0
    THEN [s EXCEPT !.transcriptHistory = Append(@, prev),
                   !.currentTranscript = text]
    ELSE [s EXCEPT !.currentTranscript = text]

\* the new intent put in front of the list instead of at its end
onIntentDetectedPrepend(s, intentData) ==
  [s EXCEPT !.intents = <<[id |-> s.nextUuid,
                           text |-> intentData.text,
                           type |-> intentData.type,
                           answer |-> intentData.answer]>> \o @,
            !.nextUuid = @ + 1]

onIntentDetected(s, intentData) ==
  [s EXCEPT !.intents = Append(@, [id |-> s.nextUuid,
                                   text |-> intentData.text,
                                   type |-> intentData.type,
                                   answer |-> intentData.answer]),
            !.nextUuid = @ + 1]

\* i is the connect() call / remote session the failure belongs to.
onError(s, i) ==
  [s EXCEPT !.error = TRUE, !.isRecording = FALSE, !.errCount[i] = @ + 1]

onDisconnect(s) ==
  [s EXCEPT !.isRecording = FALSE, !.currentTranscript = << >>,
            !.cycleDisc = @ + 1, !.runNotifs = @ + 1]

\* ------------------------------------------------------ LiveManager methods
\* the id the server gives to call j of message m; CallId(m, 0) stands for
\* the transcript of message m
CallId(m, j) == m * (MaxCalls + 1) + j

NoArgs == [text |-> "", type |-> "", answer |-> ""]

\* the manager invokes a notification callback of the application; the call
\* is logged when the inbound messages are recorded (SessMessageStream)
notify(s, kind, key, text, args) ==
  IF s.inbound = << >> THEN s
  ELSE [s EXCEPT !.notified = Append(@, [kind |-> kind, key |-> key,
                                         text |-> text, args |-> args])]

\* disconnect() releasing what the handles name without clearing the handles
disconnectKeepsHandles(s) ==
  LET s0 == IF variant = "session"
              THEN [s EXCEPT !.isConnected = FALSE, !.session = Null]
              ELSE [s EXCEPT !.isConnected = FALSE]
      s1 == IF s0.source # Null
              THEN [s0 EXCEPT !.srcNode[s0.source] = "disconnected",
                              !.releases[<<"source", s0.source>>] = @ + 1]
              ELSE s0
      s2 == IF s1.processor # Null
              THEN [s1 EXCEPT !.procNode[s1.processor] = "disconnected",
                              !.releases[<<"processor", s1.processor>>] = @ + 1]
              ELSE s1
      s3 == IF s2.stream # Null
              THEN [s2 EXCEPT !.track[s2.stream] = "stopped",
                              !.releases[<<"stream", s2.stream>>] = @ + 1]
              ELSE s2
      s4 == IF s3.inputAudioContext # Null
              THEN [s3 EXCEPT !.ctxState[s3.inputAudioContext] = "closed",
                              !.releases[<<"context", s3.inputAudioContext>>] = @ + 1]
              ELSE s3
  IN onDisconnect(s4)

disconnect(s) ==
  LET s0 == IF variant = "session"
              THEN [s EXCEPT !.isConnected = FALSE, !.session = Null]
              ELSE [s EXCEPT !.isConnected = FALSE]
      s1 == IF s0.source # Null
              THEN [s0 EXCEPT !.srcNode[s0.source] = "disconnected",
                              !.releases[<<"source", s0.source>>] = @ + 1,
                              !.source = Null]
              ELSE s0
      s2 == IF s1.processor # Null
              THEN [s1 EXCEPT !.procNode[s1.processor] = "disconnected",
                              !.releases[<<"processor", s1.processor>>] = @ + 1,
                              !.processor = Null]
              ELSE s1
      s3 == IF s2.stream # Null
              THEN [s2 EXCEPT !.track[s2.stream] = "stopped",
                              !.releases[<<"stream", s2.stream>>] = @ + 1,
                              !.stream = Null]
              ELSE s2
      s4 == IF s3.inputAudioContext # Null
              THEN [s3 EXCEPT !.ctxState[s3.inputAudioContext] = "closed",
                              !.releases[<<"context", s3.inputAudioContext>>] = @ + 1,
                              !.inputAudioContext = Null]
              ELSE s3
  IN onDisconnect(s4)

\* session.sendToolResponse / session.sendRealtimeInput on remote session `to`.
\* sync: sent within the task that handled the message or frame.
sendToolResponse(s, to, callId, sync) ==
  [s EXCEPT !.ackLog = Append(@, [id |-> callId, to |-> to, sync |-> sync])]

sendRealtimeInput(s, to, frame, sync) ==
  [s EXCEPT !.audioLog = Append(@, [frame |-> frame, to |-> to, sync |-> sync])]

\* The acknowledgement of one function call.
\* session : if (this.session) this.session.sendToolResponse(...)
\* promise : this.sessionPromise?.then(session => session.sendToolResponse(...))
\*           a resolved promise runs the callback as a microtask of this task,
\*           a pending one keeps it until it resolves, a rejected one drops it.
acknowledge(s, callId) ==
  IF variant = "session"
    THEN IF s.session # Null
           THEN sendToolResponse(s, s.session, callId, TRUE)
           ELSE s
    ELSE IF s.sessionPromise = Null THEN s
         ELSE LET p == s.sessionPromise IN
              IF s.prom[p] = "resolved"
                THEN sendToolResponse(s, p, callId, TRUE)
              ELSE IF s.prom[p] = "pending"
                THEN [s EXCEPT !.thenQ[p] = Append(@, [kind |-> "ack", v |-> callId])]
              ELSE s

transmit(s, frame) ==
  IF variant = "session"
    THEN IF s.session # Null
           THEN sendRealtimeInput(s, s.session, frame, TRUE)
           ELSE s
    ELSE IF s.sessionPromise = Null THEN s
         ELSE LET p == s.sessionPromise IN
              IF s.prom[p] = "resolved"
                THEN sendRealtimeInput(s, p, frame, TRUE)
              ELSE IF s.prom[p] = "pending"
                THEN [s EXCEPT !.thenQ[p] = Append(@, [kind |-> "audio", v |-> frame])]
              ELSE s

\* The callbacks queued on promise p run, in order, when it resolves.
RECURSIVE runThen(_, _, _)
runThen(s, p, q) ==
  IF q = << >> THEN s
  ELSE LET cb == Head(q)
           s1 == IF cb.kind = "ack"
                   THEN sendToolResponse(s, p, cb.v, FALSE)
                   ELSE sendRealtimeInput(s, p, cb.v, FALSE)
       IN runThen(s1, p, Tail(q))

handleOpen(s, i) ==
  IF s.inputAudioContext = Null \/ s.stream = Null THEN s
  ELSE [s EXCEPT !.source = i, !.processor = i,
                 !.srcNode[i] = "connected", !.procNode[i] = "connected",
                 !.nodeCtx[i] = s.inputAudioContext]

\* processor.onaudioprocess of the processor node created by handleOpen
\* n is the node that fires; the blob is kept with the rate of the context
\* that captured the frame.
\* session : createPcmBlob(inputData, this.inputAudioContext.sampleRate)
\* promise : createPcmBlob(inputData), the second parameter is not passed
onaudioprocess(s, n, frame) ==
  IF variant = "session" /\ s.inputAudioContext = Null THEN s
  ELSE LET inputData == << frame >>
           pcmBlob == IF variant = "session"
                        THEN createPcmBlob(inputData, s.platformRate)
                        ELSE createPcmBlob(inputData, Undefined)
           s1 == [onVolumeUpdate(s, frame) EXCEPT
                    !.packets[frame] = [data |-> pcmBlob.data,
                                        mimeType |-> pcmBlob.mimeType,
                                        rate |-> s.platformRate]]
       IN transmit(s1, frame)

\* the loop with a call whose args are missing treated as a fatal error:
\* onError and disconnect, as the catch block of connect() does
RECURSIVE forFunctionCallsFatal(_, _)
forFunctionCallsFatal(s, calls) ==
  IF calls = << >> THEN s
  ELSE LET fc == Head(calls) IN
       IF fc.name = "report_intent"
         THEN IF ~fc.argsOk THEN disconnect(onError(s, s.last.id))
              ELSE forFunctionCallsFatal(
                     acknowledge(
                       onIntentDetected(
                         notify(s, "intent", fc.id, << >>, fc.args), fc.args),
                       fc.id),
                     Tail(calls))
         ELSE forFunctionCallsFatal(s, Tail(calls))

\* for (const fc of message.toolCall.functionCalls): a call whose args are
\* missing throws at args.text, which ends the (async) handler.
RECURSIVE forFunctionCalls(_, _)
forFunctionCalls(s, calls) ==
  IF calls = << >> THEN s
  ELSE LET fc == Head(calls) IN
       IF fc.name = "report_intent"
         THEN IF ~fc.argsOk THEN s
              ELSE forFunctionCalls(
                     acknowledge(
                       onIntentDetected(
                         notify(s, "intent", fc.id, << >>, fc.args), fc.args),
                       fc.id),
                     Tail(calls))
         ELSE forFunctionCalls(s, Tail(calls))

\* the two parts of handleMessage in the other order: the tool calls first,
\* the transcript after them
handleMessageCallsFirst(s, message) ==
  LET transcript == message.text
      s1 == forFunctionCalls(s, message.functionCalls)
  IN IF Len(transcript) > 0
       THEN onTranscriptUpdate(
              notify(s1, "transcript", CallId(message.seq, 0), transcript, NoArgs),
              transcript)
       ELSE s1

handleMessage(s, message) ==
  LET transcript == message.text
      s1 == IF Len(transcript) > 0
              THEN onTranscriptUpdate(
                     notify(s, "transcript", CallId(message.seq, 0),
                            transcript, NoArgs),
                     transcript)
              ELSE s
  IN forFunctionCalls(s1, message.functionCalls)

handleClose(s) == disconnect(s)

handleError(s, i) == onError(s, i)

\* catch (err) { this.onError(...); this.disconnect(); }
connectCatch(s, i) == disconnect(onError(s, i))

\* connect() call i has returned: the continuation of toggleRecording after
\* `await managerRef.current.connect()` runs setIsRecording(true).
toggleRecordingResume(s, i) ==
  [s EXCEPT !.pc[i] = "done", !.isRecording = TRUE]

getUserMedia(s, i) ==
  [s EXCEPT !.micState[i] = "pending", !.pc[i] = "awaitMic"]

\* What `new AudioContext(...)` can do: throw, or give a context that is
\* running or suspended.
CtxOutcomes == {"throws", "running", "suspended"}

\* this.ai.live.connect({...callbacks})
liveConnect(s, i) == [s EXCEPT !.sess[i] = "opening", !.prom[i] = "pending"]

\* connect() as it would be with the handshake started next to getUserMedia
\* instead of after it.
connectHandshakeFirst(s, i, outcome) ==
  LET s0 == [s EXCEPT !.nConnects = i, !.cycleDisc = 0] IN
  IF outcome = "throws"
    THEN toggleRecordingResume(connectCatch(s0, i), i)
    ELSE LET s1 == [s0 EXCEPT !.inputAudioContext = i,
                              !.ctxState[i] = outcome]
         IN IF variant = "session" /\ outcome = "suspended"
              THEN [s1 EXCEPT !.pc[i] = "awaitResume"]
              ELSE getUserMedia(liveConnect(s1, i), i)

\* connect(), past the isConnected guard, up to its first await.
connect(s, i, outcome) ==
  LET s0 == [s EXCEPT !.nConnects = i, !.cycleDisc = 0] IN
  IF outcome = "throws"
    THEN toggleRecordingResume(connectCatch(s0, i), i)
    ELSE LET s1 == [s0 EXCEPT !.inputAudioContext = i,
                              !.ctxState[i] = outcome]
         IN IF variant = "session" /\ outcome = "suspended"
              THEN [s1 EXCEPT !.pc[i] = "awaitResume"]
              ELSE getUserMedia(s1, i)

\* session revision: continuation of `await this.inputAudioContext.resume()`;
\* resume() of a context that was closed meanwhile rejects.
connectAfterResume(s, i) ==
  IF s.ctxState[i] = "closed"
    THEN toggleRecordingResume(connectCatch(s, i), i)
    ELSE getUserMedia([s EXCEPT !.ctxState[i] = "running"], i)

\* continuation of `await getUserMedia(...)` when it resolved
connectAfterMic(s, i) ==
  LET s1 == liveConnect([s EXCEPT !.micState[i] = "granted", !.stream = i,
                                  !.track[i] = "live"], i)
  IN IF variant = "session"
       THEN [s1 EXCEPT !.pc[i] = "awaitSession"]
       ELSE toggleRecordingResume(
              [s1 EXCEPT !.sessionPromise = i, !.isConnected = TRUE], i)

\* continuation of `await getUserMedia(...)` when it rejected
connectMicRejected(s, i) ==
  toggleRecordingResume(connectCatch([s EXCEPT !.micState[i] = "denied"], i), i)

\* session revision: continuation of `await sessionPromise`
connectAfterSession(s, i) ==
  toggleRecordingResume([s EXCEPT !.session = i, !.isConnected = TRUE], i)

connectSessionRejected(s, i) ==
  toggleRecordingResume(connectCatch(s, i), i)

\* ------------------------------------------------------- inbound messages
IntentArgs == [text |-> "what time is it", type |-> "QUESTION", answer |-> "noon"]

FcShapes == { [name |-> "report_intent", argsOk |-> TRUE],
              [name |-> "report_intent", argsOk |-> FALSE],
              [name |-> "other", argsOk |-> TRUE] }

Texts == { << >>, <<"a">>, <<"a", "b">>, <<" ", " ">> }

CallSeqs(m) ==
  UNION { { [j \in 1..n |-> [id |-> CallId(m, j), name |-> f[j].name,
                             argsOk |-> f[j].argsOk, args |-> IntentArgs]]
            : f \in [1..n -> FcShapes] } : n \in 0..MaxCalls }

\* message m: serverContent.inputTranscription.text (absent = empty: both are
\* falsy) and toolCall.functionCalls (absent = none)
Messages(m) ==
  { [seq |-> m, text |-> t, functionCalls |-> cs] :
      t \in Texts, cs \in CallSeqs(m) }

ImperativeArgs == [text |-> "open the door", type |-> "IMPERATIVE", answer |-> "ok"]

StreamShapes ==
  { [name |-> "report_intent", argsOk |-> TRUE, args |-> IntentArgs],
    [name |-> "report_intent", argsOk |-> TRUE, args |-> ImperativeArgs],
    [name |-> "report_intent", argsOk |-> FALSE, args |-> NoArgs],
    [name |-> "other", argsOk |-> TRUE, args |-> IntentArgs] }

StreamCallSeqs(m) ==
  UNION { { [j \in 1..n |-> [id |-> CallId(m, j), name |-> f[j].name,
                             argsOk |-> f[j].argsOk, args |-> f[j].args]]
            : f \in [1..n -> StreamShapes] } : n \in 0..MaxCalls }

\* message m of a stream: here a transcript that is present and empty
\* (hasText with text "") is told apart from one that is absent
StreamMessages(m) ==
  { msg \in [seq : {m}, hasText : BOOLEAN, text : Texts,
             functionCalls : StreamCallSeqs(m)] :
      ~msg.hasText => msg.text = << >> }

CallIds(message) ==
  { message.functionCalls[j].id : j \in 1..Len(message.functionCalls) }

\* ----------------------------------------------------------------- actions
\* toggleRecording with isRecording false
StartRecording ==
  /\ mounted /\ ~isRecording
  /\ LET s == [Cur EXCEPT !.error = FALSE] IN
     IF isConnected
       THEN Set(Mark([s EXCEPT !.isRecording = TRUE], "connectGuard", Null))
       ELSE /\ nConnects < MaxConnects
            /\ \E outcome \in CtxOutcomes :
                 Set(connect(Mark(s, "connect", nConnects + 1),
                             nConnects + 1, outcome))

\* toggleRecording with isRecording true
StopRecording ==
  /\ mounted /\ isRecording
  /\ Set(disconnect(MarkDisconnectCall(Cur, "disconnect")))

\* cleanup of the effect
Unmount ==
  /\ mounted
  /\ Set(disconnect(MarkDisconnectCall([Cur EXCEPT !.mounted = FALSE],
                                       "disconnect")))

ResumeSettles(i) ==
  /\ pc[i] = "awaitResume"
  /\ Set(connectAfterResume(Mark(Cur, "resume", i), i))

MicGranted(i) ==
  /\ pc[i] = "awaitMic"
  /\ Set(connectAfterMic(Mark(Cur, "micGranted", i), i))

MicDenied(i) ==
  /\ pc[i] = "awaitMic"
  /\ Set(connectMicRejected(Mark(Cur, "micDenied", i), i))

\* the transport of session i opens: callbacks.onopen
SessOpen(i) ==
  /\ sess[i] = "opening"
  /\ Set(handleOpen(Mark([Cur EXCEPT !.sess[i] = "open"], "handleOpen", i), i))

\* the promise returned by ai.live.connect resolves to the session
SessionResolves(i) ==
  /\ prom[i] = "pending"
  /\ sess[i] \in {"open", "errored", "closed"}
  /\ LET s == Mark([Cur EXCEPT !.prom[i] = "resolved", !.thenQ[i] = << >>],
                   "resolve", i)
     IN IF variant = "session"
          THEN Set(connectAfterSession(s, i))
          ELSE Set(runThen(s, i, thenQ[i]))

\* the promise returned by ai.live.connect rejects (handshake failure)
SessionRejects(i) ==
  /\ prom[i] = "pending"
  /\ sess[i] \in {"opening", "errored0", "closed0"}
  /\ LET s == Mark([Cur EXCEPT !.prom[i] = "rejected", !.thenQ[i] = << >>,
                               !.sess[i] = IF @ = "opening" THEN "closed0" ELSE @],
                   "reject", i)
     IN IF variant = "session"
          THEN Set(connectSessionRejected(s, i))
          ELSE Set(s)

\* callbacks.onmessage
SessMessage(i) ==
  /\ sess[i] = "open"
  /\ nMsgs < MaxMsgs
  /\ \E message \in Messages(nMsgs + 1) :
       /\ message.text # << >> \/ message.functionCalls # << >>
       /\ Set(handleMessage(
                Mark([Cur EXCEPT !.nMsgs = @ + 1,
                                 !.received = @ \cup CallIds(message)],
                     "handleMessage", i),
                message))

\* callbacks.onmessage for one message of a longer stream; the message is
\* recorded as delivered
SessMessageStream(i) ==
  /\ sess[i] = "open"
  /\ nMsgs < MaxStream
  /\ \E message \in StreamMessages(nMsgs + 1) :
       Set(handleMessage(
             Mark([Cur EXCEPT !.nMsgs = @ + 1,
                              !.received = @ \cup CallIds(message),
                              !.inbound = Append(@, message)],
                  "handleMessage", i),
             message))

\* callbacks.onerror: at most once per session, before or after open
SessError(i) ==
  /\ sess[i] \in {"opening", "open"}
  /\ Set(handleError(
           Mark([Cur EXCEPT !.sess[i] = IF @ = "opening" THEN "errored0"
                                                         ELSE "errored"],
                "handleError", i), i))

\* callbacks.onclose: the remote side or the network closes the transport
SessClose(i) ==
  /\ sess[i] \in {"opening", "errored0", "open", "errored"}
  /\ Set(handleClose(
           Mark([Cur EXCEPT !.sess[i] = IF @ \in {"opening", "errored0"}
                                          THEN "closed0" ELSE "closed"],
                "handleClose", i)))

\* the session the send path of the manager leads to
SendTarget == IF variant = "session" THEN session ELSE sessionPromise

\* the transport of that session has confirmed open (onopen has fired)
TransportOpen ==
  SendTarget # Null /\ sess[SendTarget] \in {"open", "errored", "closed"}

\* the capture device delivers a frame to the processor node made for
\* session n
AudioProcess(n) ==
  /\ procNode[n] = "connected"
  /\ ctxState[nodeCtx[n]] = "running"
  /\ nFrames < MaxFrames
  /\ Set(onaudioprocess(
           Mark([Cur EXCEPT !.nFrames = @ + 1,
                            !.earlyFrames = IF TransportOpen THEN @
                                            ELSE @ \cup {nFrames + 1}],
                "onaudioprocess", n),
           n, nFrames + 1))

\* a connect() call that is suspended at one of its awaits
InFlight(i) == pc[i] \notin {"none", "done"}

\* Start is clicked only once the previous connect() has returned
StartRecordingIdle ==
  /\ \A i \in Ids : ~InFlight(i)
  /\ StartRecording

\* The whole program, the user starting a recording only when no connect()
\* is pending.
Next ==
  \/ StartRecordingIdle
  \/ StopRecording
  \/ Unmount
  \/ \E i \in Ids : ResumeSettles(i)
  \/ \E i \in Ids : MicGranted(i)
  \/ \E i \in Ids : MicDenied(i)
  \/ \E i \in Ids : SessOpen(i)
  \/ \E i \in Ids : SessionResolves(i)
  \/ \E i \in Ids : SessionRejects(i)
  \/ \E i \in Ids : SessMessage(i)
  \/ \E i \in Ids : SessError(i)
  \/ \E i \in Ids : SessClose(i)
  \/ \E n \in Ids : AudioProcess(n)

Spec == Init /\ [][Next]_vars

\* connect() call i is suspended, or its remote session can still call back
Active(i) ==
  \/ InFlight(i)
  \/ prom[i] = "pending"
  \/ sess[i] \in {"opening", "errored0", "open", "errored"}

\* Start is clicked again while connect() is suspended or a session is still
\* around, as long as at most one earlier call is still active: any two
\* connect() calls may overlap, never three at once.
StartRecordingOverlapping ==
  /\ isConnected \/ Cardinality({ i \in Ids : Active(i) }) <= 1
  /\ StartRecording

\* The session lifecycle with overlapping connect() calls, without message
\* and audio traffic.
NextConcurrent ==
  \/ StartRecordingOverlapping
  \/ StopRecording
  \/ Unmount
  \/ \E i \in Ids : ResumeSettles(i)
  \/ \E i \in Ids : MicGranted(i)
  \/ \E i \in Ids : MicDenied(i)
  \/ \E i \in Ids : SessOpen(i)
  \/ \E i \in Ids : SessionResolves(i)
  \/ \E i \in Ids : SessionRejects(i)
  \/ \E i \in Ids : SessError(i)
  \/ \E i \in Ids : SessClose(i)

SpecConcurrent == Init /\ [][NextConcurrent]_vars

\* One recording with a stream of inbound messages: a single connect() call,
\* no audio frames.
StartRecordingOnce ==
  /\ nConnects = 0
  /\ StartRecording

NextTraffic ==
  \/ StartRecordingOnce
  \/ StopRecording
  \/ \E i \in Ids : ResumeSettles(i)
  \/ \E i \in Ids : MicGranted(i)
  \/ \E i \in Ids : SessOpen(i)
  \/ \E i \in Ids : SessionResolves(i)
  \/ \E i \in Ids : SessMessageStream(i)
  \/ \E i \in Ids : SessClose(i)

SpecTraffic == Init /\ [][NextTraffic]_vars

\* One recording on a platform that may give the audio context another sample
\* rate than the requested one: a single connect() call, audio frames, no
\* inbound messages.
InitCapture ==
  /\ InitManager
  /\ platformRate \in Rates
  /\ codec = CodecIdle

NextCapture ==
  \/ StartRecordingOnce
  \/ StopRecording
  \/ Unmount
  \/ \E i \in Ids : ResumeSettles(i)
  \/ \E i \in Ids : MicGranted(i)
  \/ \E i \in Ids : MicDenied(i)
  \/ \E i \in Ids : SessOpen(i)
  \/ \E i \in Ids : SessionResolves(i)
  \/ \E i \in Ids : SessionRejects(i)
  \/ \E i \in Ids : SessError(i)
  \/ \E i \in Ids : SessClose(i)
  \/ \E n \in Ids : AudioProcess(n)

SpecCapture == InitCapture /\ [][NextCapture]_vars

\* The codec of audioUtils alone: a frame of samples from the grid is encoded
\* by createPcmBlob and the blob's data decoded by decodeAudioData.
Grid == (-2 * GridDen)..(2 * GridDen)

Frames == UNION { [1..n -> Grid] : n \in 1..MaxSamples }

InitCodec ==
  /\ InitManager
  /\ platformRate = RequestedRate
  /\ codec \in { [pc |-> "input", input |-> data,
                   blob |-> [data |-> << >>, mimeType |-> ""],
                   output |-> << >>] : data \in Frames }

CodecEncode ==
  /\ codec.pc = "input"
  /\ Set([Cur EXCEPT !.codec.blob = createPcmBlob(codec.input, RequestedRate),
                     !.codec.pc = "encoded"])

CodecDecode ==
  /\ codec.pc = "encoded"
  /\ Set([Cur EXCEPT !.codec.output = decodeAudioData(codec.blob.data),
                     !.codec.pc = "decoded"])

NextCodec ==
  \/ CodecEncode
  \/ CodecDecode

SpecCodec == InitCodec /\ [][NextCodec]_vars

\* The state projector of App.tsx alone, driven by an arbitrary stream of the
\* callbacks it registers; the stream is recorded in events.
Hi == <<"h", "i">>
HiThere == <<"h", "i", " ", "t", "h", "e", "r", "e">>
Go == <<"g", "o">>
Hello == <<"h", "e", "l", "l", "o">>

ProjTexts == Texts \cup {Hi, HiThere, Go, Hello}

ProjEvent(s, kind, text, args) ==
  Mark([s EXCEPT !.events = Append(@, [kind |-> kind, text |-> text,
                                       args |-> args])],
       kind, Null)

ProjTranscriptUpdate ==
  /\ Len(events) < MaxEvents
  /\ \E text \in ProjTexts :
       Set(onTranscriptUpdate(ProjEvent(Cur, "onTranscriptUpdate", text, NoArgs),
                              text))

ProjIntentDetected ==
  /\ Len(events) < MaxEvents
  /\ \E intentData \in {IntentArgs, ImperativeArgs} :
       Set(onIntentDetected(ProjEvent(Cur, "onIntentDetected", << >>, intentData),
                            intentData))

ProjDisconnect ==
  /\ Len(events) < MaxEvents
  /\ Set(onDisconnect(ProjEvent(Cur, "onDisconnect", << >>, NoArgs)))

\* toggleRecording starting a recording, as far as the projector state goes:
\* setError(null) and, after connect(), setIsRecording(true)
ProjRecordingStarted ==
  /\ Len(events) < MaxEvents
  /\ ~isRecording
  /\ Set([ProjEvent(Cur, "toggleRecording", << >>, NoArgs)
            EXCEPT !.error = FALSE, !.isRecording = TRUE])

NextProjector ==
  \/ ProjTranscriptUpdate
  \/ ProjIntentDetected
  \/ ProjDisconnect
  \/ ProjRecordingStarted

SpecProjector == Init /\ [][NextProjector]_vars

\* ---------------------------------------------------------------- claims
\* a remote session that was opened (or is being opened) and is not closed
LiveSession(i) == sess[i] \in {"opening", "open"}

\* connect() call i has returned after one of its steps failed
Failed(i) ==
  /\ pc[i] = "done"
  /\ \/ ctxState[i] = "none"
     \/ micState[i] = "denied"
     \/ prom[i] = "rejected"

\* a fatal failure has happened to connect() call / session i
FatalEpisode(i) ==
  \/ Failed(i)
  \/ prom[i] = "rejected"
  \/ sess[i] \in {"errored0", "errored"}

AckCount(c) == Cardinality({ k \in 1..Len(ackLog) : ackLog[k].id = c })

\* C1: two disconnect() calls in a row, with no connect() and nothing else in
\* between, produce exactly one onDisconnect notification in total.
C1_DisconnectTwiceNotifiesOnce ==
  runLen = 2 => runNotifs = 1

\* C2: between one connect() and the next the onDisconnect notification fires
\* exactly once: never more than once, and once the cycle is over (no
\* connect() pending, manager not connected) it has fired.
C2_OneDisconnectPerCycle ==
  /\ cycleDisc <= 1
  /\ (nConnects > 0 /\ ~isConnected /\ \A i \in Ids : ~InFlight(i))
       => cycleDisc = 1

\* C3: when the onerror callback of an open session has been handled, there
\* has been one onError and one onDisconnect notification, the stream, the
\* audio context, the nodes and the session handle are released and the
\* manager is not connected.
C3_TransportErrorTearsDown ==
  (last.op = "handleError" /\ sess[last.id] = "errored") =>
     /\ errCount[last.id] = 1
     /\ cycleDisc = 1
     /\ ~isConnected
     /\ stream = Null /\ inputAudioContext = Null
     /\ processor = Null /\ source = Null
     /\ session = Null

\* C4: connect() is a no-op while an earlier connect() is suspended: no
\* second call gets past the guard, so at most one call is ever in flight.
C4_ConnectNoOpWhileConnecting ==
  Cardinality({ i \in Ids : InFlight(i) }) <= 1

\* C5: in every reachable state at most one remote session opened by the
\* manager is live and at most one acquired microphone stream is unreleased.
C5_AtMostOneSessionAndStream ==
  /\ Cardinality({ i \in Ids : LiveSession(i) }) <= 1
  /\ Cardinality({ i \in Ids : track[i] = "live" }) <= 1

\* C6: after disconnect() has returned no remote session of the manager is
\* open or being opened.
C6_DisconnectClosesTransport ==
  last.op = "disconnect" => \A i \in Ids : ~LiveSession(i)

\* C7: once a connect() call of which a step failed has returned (and no
\* later connect() was issued), the manager is idle: isConnected is false
\* and the audio context, the microphone stream and the remote session of
\* that call are released.
C7_FailedConnectUnwinds ==
  \A i \in Ids :
    (Failed(i) /\ i = nConnects) =>
       /\ ~isConnected
       /\ inputAudioContext = Null /\ stream = Null
       /\ ctxState[i] \in {"none", "closed"}
       /\ track[i] # "live"
       /\ ~LiveSession(i)

\* C8: every fatal failure episode gives exactly one onError notification:
\* never two, and one once the failure has happened.
C8_OneErrorPerEpisode ==
  \A i \in Ids :
    /\ errCount[i] <= 1
    /\ FatalEpisode(i) => errCount[i] = 1

\* C9: ai.live.connect is invoked by a connect() call only after its
\* getUserMedia has resolved; a call whose microphone acquisition failed has
\* no remote session, opened or opening.
C9_HandshakeOnlyAfterMicrophone ==
  \A i \in Ids :
    /\ sess[i] # "none" => micState[i] = "granted"
    /\ micState[i] = "denied" => (sess[i] = "none" /\ prom[i] = "none")

\* C9 witness: one connect() call was refused the microphone and has
\* returned, another was granted it and has started the handshake.
C9_Witness ==
  \E i, j \in Ids :
    /\ micState[i] = "denied" /\ pc[i] = "done"
    /\ micState[j] = "granted" /\ sess[j] # "none"

\* C10: every function call received in a tool-call message has exactly one
\* acknowledgement with its call id, sent within the handling of its message.
C10_EveryToolCallAcknowledged ==
  \A c \in received :
    /\ AckCount(c) = 1
    /\ \A k \in 1..Len(ackLog) : ackLog[k].id = c => ackLog[k].sync

\* how often frame f has been handed to sendRealtimeInput
SentCount(f) ==
  Cardinality({ k \in 1..Len(audioLog) : audioLog[k].frame = f })

\* frame f waits in a callback queued on a pending session promise
Queued(f) ==
  \E p \in Ids : \E k \in 1..Len(thenQ[p]) :
    thenQ[p][k].kind = "audio" /\ thenQ[p][k].v = f

\* C11: a frame that reaches the send path before the transport of the
\* session it is sent on has confirmed open is dropped: it is never handed to
\* sendRealtimeInput, neither at once nor later from a queue.
C11_EarlyFramesDropped ==
  \A f \in earlyFrames : SentCount(f) = 0

\* C12: every frame the processor node captures (the node exists from onopen
\* until disconnect) is transmitted exactly once: it has been handed to
\* sendRealtimeInput once, or it waits on the pending session promise and has
\* not been sent yet; no captured frame is dropped.
C12_CapturedFramesSentOnce ==
  \A f \in 1..nFrames :
    \/ SentCount(f) = 1
    \/ SentCount(f) = 0 /\ Queued(f)

\* sequence q is sequence p with entries appended at its end
IsPrefix(p, q) == Len(p) <= Len(q) /\ SubSeq(q, 1, Len(p)) = p

\* C13: transcript-update and intent-detected notifications reach the
\* application in the order of the inbound messages and, within a message, of
\* its parts: a step only appends to the notifications delivered so far, what
\* it appends belongs to the message delivered in that step (nothing is held
\* back for a later step) and is in the order transcript, call 1, call 2, ...
C13_NotificationsInTransportOrder ==
  [][ LET new == SubSeq(notified', Len(notified) + 1, Len(notified')) IN
      /\ IsPrefix(notified, notified')
      /\ \A k \in 1..Len(new) :
           /\ nMsgs' = nMsgs + 1
           /\ new[k].key \div (MaxCalls + 1) = nMsgs'
      /\ \A a, b \in 1..Len(new) : a < b => new[a].key < new[b].key ]_vars

\* C13 witness: two messages were delivered, the first with a transcript and
\* two intent reports, and the application got four notifications.
C13_Witness ==
  /\ Len(inbound) = 2
  /\ Len(notified) >= 4
  /\ notified[1].kind = "transcript"
  /\ notified[2].kind = "intent" /\ notified[3].kind = "intent"
  /\ notified[4].key \div (MaxCalls + 1) = 2

\* the well-formed report_intent calls of a message, in the order of the calls
ReportIntentCalls(message) ==
  SelectSeq(message.functionCalls,
            LAMBDA fc : fc.name = "report_intent" /\ fc.argsOk)

\* the intent-detected notifications emitted for message m, in order
IntentEvents(m) ==
  SelectSeq(notified,
            LAMBDA e : e.kind = "intent" /\ e.key \div (MaxCalls + 1) = m)

\* C15: the transcript history only grows at its end, and after a message
\* that carries a transcript text (whatever the text) the current-turn string
\* is that text.
C15_HistoryAppendOnlyCurrentReplaced ==
  [][ /\ IsPrefix(transcriptHistory, transcriptHistory')
      /\ Len(inbound') > Len(inbound) =>
           LET message == inbound'[Len(inbound')] IN
           message.hasText => currentTranscript' = message.text ]_vars

\* C17: for every delivered message, the intent-detected notifications are
\* exactly its report_intent calls that carry arguments, one notification per
\* call, in the order of the calls, each with the arguments of its call.
C17_OneIntentPerReportIntentCall ==
  \A m \in 1..Len(inbound) :
    LET calls == ReportIntentCalls(inbound[m])
        evts == IntentEvents(m)
    IN /\ Len(evts) = Len(calls)
       /\ \A k \in 1..Len(evts) :
            evts[k].key = calls[k].id /\ evts[k].args = calls[k].args

\* the texts of the transcript updates delivered to the projector, in order
UpdateTexts ==
  LET ups == SelectSeq(events, LAMBDA e : e.kind = "onTranscriptUpdate")
  IN [k \in 1..Len(ups) |-> ups[k].text]

\* C14 as stated: a transcript update text arriving when the current string
\* is prev appends prev to the history iff text is shorter than prev and prev
\* is non-empty, whitespace-only prev included; otherwise the history is
\* unchanged.
C14_PushIffShorterAndNonEmpty ==
  [][ last'.op = "onTranscriptUpdate" =>
        LET prev == currentTranscript
            text == events'[Len(events')].text
        IN IF Len(text) < Len(prev) /\ Len(prev) > 0
             THEN transcriptHistory' = Append(transcriptHistory, prev)
             ELSE transcriptHistory' = transcriptHistory ]_vars

\* C14 amended: a transcript update text arriving when the current string is
\* prev appends prev to the history iff text is shorter than prev and prev
\* has a character that is not whitespace; otherwise the history is
\* unchanged (a whitespace-only prev is not pushed). The example streams,
\* made of transcript updates and nothing else, give the stated histories.
C14_PushIffShorterAndNonBlank ==
  [][ /\ last'.op = "onTranscriptUpdate" =>
           LET prev == currentTranscript
               text == events'[Len(events')].text
           IN IF /\ Len(text) < Len(prev)
                 /\ \E k \in 1..Len(prev) : prev[k] # " "
                THEN transcriptHistory' = Append(transcriptHistory, prev)
                ELSE transcriptHistory' = transcriptHistory
      /\ Len(events') = Len(UpdateTexts') =>
           /\ UpdateTexts' = <<Hi, HiThere, Go>> =>
                transcriptHistory' = <<HiThere>> /\ currentTranscript' = Go
           /\ UpdateTexts' = << << >>, Hello >> =>
                transcriptHistory' = << >> /\ currentTranscript' = Hello ]_vars

\* C14 witness: "hi there" was replaced by a shorter whitespace-only string
\* and pushed; the whitespace-only string was then replaced by a shorter text
\* and not pushed.
C14_Witness ==
  /\ UpdateTexts = <<HiThere, <<" ", " ">>, <<"a">>>>
  /\ transcriptHistory = <<HiThere>>
  /\ currentTranscript = <<"a">>

\* the intent-detected events delivered to the projector, in order
IntentStream == SelectSeq(events, LAMBDA e : e.kind = "onIntentDetected")

\* C16: the intent list mirrors the intent-detected stream: a step only
\* appends to it, and after every step it has one entry per event, in the
\* order of the events, with the event's text, type and answer and an id no
\* other entry has; disconnects and restarts in the stream change nothing.
C16_IntentListMirrorsStream ==
  [][ /\ IsPrefix(intents, intents')
      /\ Len(intents') = Len(IntentStream')
      /\ \A k \in 1..Len(intents') :
           /\ intents'[k].text = IntentStream'[k].args.text
           /\ intents'[k].type = IntentStream'[k].args.type
           /\ intents'[k].answer = IntentStream'[k].args.answer
      /\ \A a, b \in 1..Len(intents') :
           a # b => intents'[a].id # intents'[b].id ]_vars

\* C16 witness: the same intent was reported before and after a disconnect
\* and a restart, and the list holds it twice.
C16_Witness ==
  /\ Len(events) >= 3
  /\ events[1].kind = "onIntentDetected"
  /\ events[2].kind = "onDisconnect"
  /\ events[3].kind = "onIntentDetected"
  /\ events[1].args = events[3].args
  /\ Len(intents) = 2
  /\ intents[1].text = intents[2].text

\* C18: from the delivery of an error notification until the user starts a
\* new recording (which clears the error), the UI recording state is stopped:
\* no state after the handlers of the failure have run shows the error
\* together with isRecording.
C18_StoppedAfterFatalError ==
  (mounted /\ error) => ~isRecording

\* C19: in every interleaving each acquired resource (source node, processor
\* node, microphone stream, audio context of a connect() call) is released at
\* most once.
C19_NoDoubleRelease ==
  \A r \in Resources : releases[r] <= 1

\* C19 witness: disconnect() was called twice in a row, the second time with
\* every handle absent, after a call that released all four resources of one
\* connect() call.
C19_Witness ==
  /\ last.op = "disconnect" /\ runLen >= 2
  /\ source = Null /\ processor = Null /\ stream = Null
  /\ inputAudioContext = Null
  /\ \E i \in Ids :
       \A kind \in {"source", "processor", "stream", "context"} :
         releases[<<kind, i>>] = 1

\* C20: when disconnect() was called while connect() call i was suspended at
\* an await and no later connect() was made, then once call i has settled no
\* microphone stream is held and isConnected is false.
C20_StopDuringConnectWins ==
  \A i \in cancelled :
    (pc[i] = "done" /\ nConnects = i) =>
      /\ ~isConnected
      /\ stream = Null
      /\ track[i] # "live"

\* C21: every packet handed to sendRealtimeInput has the mimeType
\* "audio/pcm;rate=<N>" with N the sample rate of the audio context that
\* captured the frame, also when that is not the requested 16000.
C21_PacketTaggedWithContextRate ==
  \A k \in 1..Len(audioLog) :
    LET packet == packets[audioLog[k].frame]
    IN packet.mimeType = "audio/pcm;rate=" \o ToString(packet.rate)

\* |y - x| for sample i of the decoded frame, times 32768 * GridDen
\* (x = input[i] / GridDen, y = output[i] / 32768)
RoundTripError(i) ==
  LET e == codec.output[i] * GridDen - codec.input[i] * 32768
  IN IF e < 0 THEN -e ELSE e

\* C22 as stated: for every sample x in [-1, 1] of the grid, decoding what
\* createPcmBlob produced gives y with |y - x| <= 1/32768.
C22_RoundTripWithinOneStep ==
  codec.pc = "decoded" =>
    \A i \in 1..Len(codec.input) :
      codec.input[i] \in (-GridDen)..GridDen => RoundTripError(i) <= GridDen

\* C22 amended: for every sample x in [-1, 1] of the grid, decoding what
\* createPcmBlob produced gives y with |y - x| < 2/32768, and
\* |y - x| < 1/32768 when x <= 0.
C22_RoundTripWithinTwoSteps ==
  codec.pc = "decoded" =>
    /\ Len(codec.output) = Len(codec.input)
    /\ \A i \in 1..Len(codec.input) :
         codec.input[i] \in (-GridDen)..GridDen =>
           /\ RoundTripError(i) < 2 * GridDen
           /\ codec.input[i] <= 0 => RoundTripError(i) < GridDen

\* C22 witness: a frame was encoded and decoded in which a positive sample
\* came back more than 1/32768 away and a negative sample less.
C22_Witness ==
  /\ codec.pc = "decoded"
  /\ \E i, j \in 1..Len(codec.input) :
       /\ codec.input[i] \in 1..GridDen /\ RoundTripError(i) > GridDen
       /\ codec.input[j] \in (-GridDen)..(-1) /\ RoundTripError(j) < GridDen

\* C23: every sample above 1 encodes to 32767, the value of 1.0, every
\* sample below -1 to -32768, the value of -1.0, and no encoded value has
\* wrapped around: it has the sign of its sample and lies in
\* [-32768, 32767].
C23_ClampedBeforeScaling ==
  codec.pc = "decoded" =>
    \A i \in 1..Len(codec.input) :
      LET n == codec.input[i]
          v == codec.output[i]
      IN /\ n >= GridDen => v = 32767
         /\ n <= -GridDen => v = -32768
         /\ v \in (-32768)..32767
         /\ n > 0 => v > 0
         /\ n < 0 => v < 0
         /\ n = 0 => v = 0

\* C23 witness: a frame holding the samples 1.5 and -2.0 was encoded.
C23_Witness ==
  /\ codec.pc = "decoded"
  /\ \E i, j \in 1..Len(codec.input) :
       /\ 2 * codec.input[i] = 3 * GridDen /\ codec.output[i] = 32767
       /\ codec.input[j] = -2 * GridDen /\ codec.output[j] = -32768

\* a report_intent call of the message has no args
Malformed(message) ==
  \E j \in 1..Len(message.functionCalls) :
    /\ message.functionCalls[j].name = "report_intent"
    /\ ~message.functionCalls[j].argsOk

\* C24: a message holding a report_intent call without args raises no
\* onError, triggers no disconnect and leaves the session state and the
\* resources as they were; a well-formed message that comes after such a
\* message is processed as usual: its transcript, if any, becomes the current
\* string and each of its report_intent calls gives one intent-detected
\* notification and one new entry of the intent list.
C24_MalformedMessageAbsorbed ==
  [][ Len(inbound') > Len(inbound) =>
        LET message == inbound'[Len(inbound')] IN
        /\ Malformed(message) =>
             /\ errCount' = errCount /\ error' = error
             /\ cycleDisc' = cycleDisc /\ isRecording' = isRecording
             /\ isConnected' = isConnected /\ session' = session
             /\ sessionPromise' = sessionPromise
             /\ inputAudioContext' = inputAudioContext /\ stream' = stream
             /\ processor' = processor /\ source' = source
             /\ sess' = sess /\ prom' = prom /\ track' = track
             /\ ctxState' = ctxState /\ procNode' = procNode
             /\ srcNode' = srcNode /\ releases' = releases
        /\ (~Malformed(message) /\ \E k \in 1..Len(inbound) : Malformed(inbound[k])) =>
             LET calls == SelectSeq(message.functionCalls,
                                    LAMBDA fc : fc.name = "report_intent")
                 new == SubSeq(notified', Len(notified) + 1, Len(notified'))
                 evts == SelectSeq(new, LAMBDA e : e.kind = "intent")
             IN /\ Len(message.text) > 0 =>
                     /\ currentTranscript' = message.text
                     /\ Len(new) > 0 /\ new[1].kind = "transcript"
                     /\ new[1].text = message.text
                /\ Len(evts) = Len(calls)
                /\ \A k \in 1..Len(evts) :
                     evts[k].key = calls[k].id /\ evts[k].args = calls[k].args
                /\ Len(intents') = Len(intents) + Len(calls) ]_vars

\* C24 witness: a malformed message was delivered to a connected manager,
\* which is still connected with its stream, and the message after it gave
\* its transcript and an intent to the application.
C24_Witness ==
  /\ Len(inbound) = 2
  /\ Malformed(inbound[1]) /\ ~Malformed(inbound[2])
  /\ isConnected /\ stream # Null /\ cycleDisc = 0 /\ ~error
  /\ Len(inbound[2].text) > 0 /\ currentTranscript = inbound[2].text
  /\ \E k \in 1..Len(notified) :
       notified[k].kind = "intent" /\ notified[k].key \div (MaxCalls + 1) = 2

\* C25: once onDisconnect has been notified in a cycle and until the next
\* connect(), no step delivers a transcript-update or intent-detected
\* notification or a volume update to the application.
C25_SilentAfterDisconnect ==
  [][ (cycleDisc >= 1 /\ nConnects' = nConnects) =>
        (notified' = notified /\ volume' = volume) ]_vars

\* C26: once disconnect() has returned in a cycle and until the next
\* connect(), no step calls sendRealtimeInput or sendToolResponse (cycles in
\* which disconnect() ran while connect() was still suspended are left out).
C26_NoSendAfterDisconnect ==
  [][ (cycleDisc >= 1 /\ nConnects' = nConnects /\ cancelled = {}) =>
        (audioLog' = audioLog /\ ackLog' = ackLog) ]_vars

\* C27: whenever no connect() call is in flight, the UI's isRecording flag
\* equals the manager's isConnected flag.
C27_RecordingEqualsConnected ==
  (mounted /\ \A i \in Ids : ~InFlight(i)) => (isRecording = isConnected)

\* the recording was restarted after a disconnect notification and no
\* transcript update has been delivered since the restart
AwaitingFirstUpdate ==
  \E k \in 1..Len(events) :
    /\ events[k].kind = "toggleRecording"
    /\ \E j \in 1..(k - 1) : events[j].kind = "onDisconnect"
    /\ \A l \in (k + 1)..Len(events) : events[l].kind # "onTranscriptUpdate"

\* C28: handling onDisconnect empties the current-turn string, sets
\* isRecording to false and leaves the transcript history and the intent list
\* as they were; the first transcript update after a reconnect (with a
\* non-empty text, as the manager forwards no other) pushes nothing to the
\* history.
C28_DisconnectResetsLiveViewOnly ==
  [][ /\ last'.op = "onDisconnect" =>
           /\ currentTranscript' = << >> /\ ~isRecording'
           /\ transcriptHistory' = transcriptHistory
           /\ intents' = intents
      /\ ( /\ last'.op = "onTranscriptUpdate"
           /\ events'[Len(events')].text # << >>
           /\ AwaitingFirstUpdate ) =>
           transcriptHistory' = transcriptHistory ]_vars

====
